---- MODULE Spec2Model ----
(***************************************************************************)
(* Pinch-to-zoom gesture controller and mode resolver of the editor        *)
(* component, in its three variants:                                       *)
(*   "A"  src/frontend/src/components/Editor.vue   style-only, pan + zoom  *)
(*   "B"  src/unnamed/part_000, first component    frame-scheduled         *)
(*   "C"  src/unnamed/part_000, second component   threshold               *)
(*                                                                         *)
(* JavaScript numbers are modelled as exact fractions <<n, d>> in lowest   *)
(* terms with d > 0, extended by the three IEEE values the code can        *)
(* produce by dividing by a zero finger distance: <<1, 0>> is Infinity,    *)
(* <<-1, 0>> is -Infinity and <<0, 0>> is NaN.  Rounding error of binary   *)
(* floating point is not modelled (the specification states its round-trip *)
(* property "within floating-point tolerance").                            *)
(***************************************************************************)
EXTENDS Integers, Sequences, FiniteSets, TLC

\* null: the empty tuple, distinct from every number <<n, d>>
NULL == <<>>

-----------------------------------------------------------------------------
(* JavaScript number arithmetic                                            *)

Abs(n) == IF n < 0 THEN -n ELSE n

Sign(n) == IF n < 0 THEN -1 ELSE IF n > 0 THEN 1 ELSE 0

RECURSIVE GCD(_, _)
GCD(a, b) == IF b = 0 THEN a ELSE GCD(b, a % b)

Norm(n, d) ==
  IF d = 0 THEN <<Sign(n), 0>>
  ELSE LET s == IF d < 0 THEN -1 ELSE 1
           g == GCD(Abs(n), Abs(d))
       IN  <<(s * n) \div g, (s * d) \div g>>

Num(n) == <<n, 1>>
Frac(n, d) == Norm(n, d)
NaN == <<0, 0>>
Infinity == <<1, 0>>

IsNaN(x) == x = NaN
IsFinite(x) == x[2] > 0

Neg(x) == <<-x[1], x[2]>>

Mul(x, y) == Norm(x[1] * y[1], x[2] * y[2])

Inverse(x) == IF x[1] < 0 THEN <<-x[2], -x[1]>> ELSE <<x[2], x[1]>>

Div(x, y) == Mul(x, Inverse(y))

Add(x, y) ==
  IF x[2] = 0 /\ y[2] = 0
  THEN IF x = y THEN x ELSE NaN
  ELSE Norm(x[1] * y[2] + y[1] * x[2], x[2] * y[2])

Sub(x, y) == Add(x, Neg(y))

\* x < y ; every comparison with NaN is false
Less(x, y) ==
  IF IsNaN(x) \/ IsNaN(y) THEN FALSE
  ELSE IF x[2] = 0 /\ y[2] = 0 THEN x[1] < y[1]
  ELSE x[1] * y[2] < y[1] * x[2]

Greater(x, y) == Less(y, x)

MathMax(x, y) == IF IsNaN(x) \/ IsNaN(y) THEN NaN ELSE IF Less(x, y) THEN y ELSE x

MathMin(x, y) == IF IsNaN(x) \/ IsNaN(y) THEN NaN ELSE IF Less(y, x) THEN y ELSE x

MathAbs(x) == <<Abs(x[1]), x[2]>>

\* Math.round: the nearest integer, halves towards +Infinity
MathRound(x) == IF x[2] = 0 THEN x ELSE Num((2 * x[1] + x[2]) \div (2 * x[2]))

\* Math.hypot of two integer differences; the touch points of the model are
\* chosen so that the result is an integer
MathHypot(dx, dy) ==
  LET q == dx * dx + dy * dy
  IN  Num(CHOOSE r \in 0..q : r * r = q)

\* JavaScript truthiness of a number or null
Truthy(x) == x # NULL /\ ~IsNaN(x) /\ x # Num(0)

-----------------------------------------------------------------------------
(* Touch input                                                             *)

Touch(x, y) == [clientX |-> x, clientY |-> y]

\* the positions a finger takes
Fingers == <<Touch(4, 0), Touch(0, 0), Touch(0, 3), Touch(0, 4)>>

IsSquare(q) == \E r \in 0..q : r * r = q

\* e.touches of a two-finger event: the code is symmetric in the two touches,
\* so one order of each pair is taken
TouchPairs ==
  {<<Fingers[p[1]], Fingers[p[2]]>> :
     p \in {q \in (DOMAIN Fingers) \X (DOMAIN Fingers) :
              /\ q[1] <= q[2]
              /\ IsSquare((Fingers[q[2]].clientX - Fingers[q[1]].clientX)
                            * (Fingers[q[2]].clientX - Fingers[q[1]].clientX)
                        + (Fingers[q[2]].clientY - Fingers[q[1]].clientY)
                            * (Fingers[q[2]].clientY - Fingers[q[1]].clientY))}}

\* e.touches of an event with a number of touch points other than 2
OtherTouches == {<<Touch(0, 0)>>, <<Touch(4, 0), Touch(0, 0), Touch(0, 3)>>}

TouchLists == TouchPairs \cup OtherTouches

getDistance(t1, t2) == MathHypot(t2.clientX - t1.clientX, t2.clientY - t1.clientY)

getTouchCenter(t1, t2) ==
  [x |-> Frac(t1.clientX + t2.clientX, 2), y |-> Frac(t1.clientY + t2.clientY, 2)]

-----------------------------------------------------------------------------
(* Mode resolver                                                           *)

Variants == {"A", "B", "C"}

includes(arr, x) == \E i \in DOMAIN arr : arr[i] = x

\* languagesMap of Editor.vue; a plugin's result is the list of editor
\* extensions it builds
languagesMapA(ext) == <<
  [name |-> <<"js", "jsx", "ts", "tsx", "mjs", "djs">>,
   plugin |-> <<IF ext = "ts" THEN "javascript{jsx,typescript}" ELSE "javascript{jsx}">>],
  [name |-> <<"json", "json5">>, plugin |-> <<"json", "lintGutter", "linter(jsonParseLinter)">>],
  [name |-> <<"xml">>, plugin |-> <<"xml">>],
  [name |-> <<"css", "less", "scss">>, plugin |-> <<"css">>],
  [name |-> <<"html", "vue">>, plugin |-> <<"html">>],
  [name |-> <<"yaml", "yml", "toml">>, plugin |-> <<"yaml">>],
  [name |-> <<"properties", "ini">>, plugin |-> <<"properties">>],
  [name |-> <<"shell", "sh", "bat", "cmd">>, plugin |-> <<"shell">>],
  [name |-> <<"py", "pyi", "pyw">>, plugin |-> <<"python">> ] >>

jsonLintExtensions == <<"lintGutter", "linter(jsonParseLinter)">>

\* languagesMap of both components of part_000
languagesMapBC(ext) ==
  LET isJSON == includes(<<"json", "json5">>, ext)
  IN << [name |-> <<"json", "json5">>,
         plugin |-> <<"json">> \o (IF isJSON THEN jsonLintExtensions ELSE <<>>)],
        [name |-> <<"js", "jsx", "ts", "tsx", "mjs", "djs">>,
         plugin |-> <<IF ext = "ts" THEN "javascript{jsx,typescript}" ELSE "javascript{jsx}">>],
        [name |-> <<"xml">>, plugin |-> <<"xml">>],
        [name |-> <<"css", "less", "scss">>, plugin |-> <<"css">>],
        [name |-> <<"html", "vue">>, plugin |-> <<"html">>],
        [name |-> <<"yaml", "yml", "toml">>, plugin |-> <<"yaml">>],
        [name |-> <<"properties", "ini">>, plugin |-> <<"properties">>],
        [name |-> <<"shell", "sh", "bat", "cmd">>, plugin |-> <<"shell">>],
        [name |-> <<"py", "pyi", "pyw">>, plugin |-> <<"python">> ] >>

languagesMap(v, ext) == IF v = "A" THEN languagesMapA(ext) ELSE languagesMapBC(ext)

defaultBundle == <<"javascript{}">>

\* find that stops one entry short of the end of the array
findBeforeLast(map, ext) ==
  LET hits == {i \in 1..(Len(map) - 1) : includes(map[i].name, ext)}
  IN  IF hits = {} THEN NULL
      ELSE <<map[CHOOSE i \in hits : \A j \in hits : i <= j]>>

\* Array.prototype.find: the first element satisfying the predicate (here held
\* in a one-element tuple), or null
find(map, ext) ==
  LET hits == {i \in DOMAIN map : includes(map[i].name, ext)}
  IN  IF hits = {} THEN NULL
      ELSE <<map[CHOOSE i \in hits : \A j \in hits : i <= j]>>

\* languagesMap.find(item => item.name.includes(ext))?.plugin() ?? javascript()
getLanguageExtension(v, ext) ==
  LET item == find(languagesMap(v, ext), ext)
  IN  IF item = NULL THEN defaultBundle ELSE item[1].plugin

\* the extensions named by the tables, and the values of getFileExtName that
\* name none of them
ListedExts ==
  UNION {{languagesMapA("")[i].name[k] : k \in DOMAIN languagesMapA("")[i].name} :
           i \in DOMAIN languagesMapA("")}

UnlistedExts == {"", "txt", "md", "log"}

Exts == ListedExts \cup UnlistedExts

-----------------------------------------------------------------------------
(* Component state                                                         *)

VARIABLES
  variant,          \* which of the three components this instance is
  isPhone,          \* useScreen().isPhone
  ext,              \* getFileExtName(props.filename)
  phase,            \* "setup", "mounted" or "unmounted"
  editorContainer,  \* the template ref: NULL, or the element
  listeners,        \* event types with a handler registered on the element
  style,            \* the element's inline style
  st,               \* the script's gesture variables and refs
  editor,           \* the script's `editor` variable: NULL, or the view
  view,             \* the EditorView object
  frames,           \* pending requestAnimationFrame callbacks, in order
  nextHandle,       \* the handle the next requestAnimationFrame returns
  emitted,          \* the events the last step emitted to the host component
  hist              \* history of the run, read by the properties only

vars == <<variant, isPhone, ext, phase, editorContainer, listeners, style, st,
          editor, view, frames, nextHandle, emitted, hist>>

\* bound on the touch events of a run
MaxEvents == 4

MAX_SCALE(v) == IF v = "B" THEN Frac(5, 4) ELSE Num(3)

MIN_SCALE(v) == IF v = "B" THEN Frac(2, 5) ELSE Frac(1, 2)

\* Editor.vue holds these as the strings "14px" ...; the number of pixels
baseFontSize0(phone) == IF phone THEN Num(14) ELSE Num(15)

baseLineHeight0(phone) == IF phone THEN Num(22) ELSE Num(24)

\* the gesture variables as the script's setup leaves them
InitSt(v, phone) ==
  CASE v = "A" ->
         [initialPinchDistance |-> NULL, currentScale |-> Num(1),
          currentTranslateX |-> Num(0), currentTranslateY |-> Num(0),
          initialPinchCenterX |-> Num(0), initialPinchCenterY |-> Num(0),
          initialTranslateX |-> Num(0), initialTranslateY |-> Num(0),
          initialScale |-> Num(1)]
    [] v = "B" ->
         [startDistance |-> Num(0), startScale |-> Num(1),
          startCenterX |-> Num(0), startCenterY |-> Num(0),
          currentFontSize |-> baseFontSize0(phone),
          currentLineHeight |-> baseLineHeight0(phone),
          scale |-> Num(1), animationFrameId |-> 0]
    [] v = "C" ->
         [initialPinchDistance |-> NULL, currentScale |-> Num(1),
          baseFontSize |-> baseFontSize0(phone),
          baseLineHeight |-> baseLineHeight0(phone),
          currentFontSize |-> baseFontSize0(phone),
          currentLineHeight |-> baseLineHeight0(phone)]

InitStyle == [transform |-> NULL, minWidth |-> NULL, minHeight |-> NULL]

InitView ==
  [created |-> FALSE, destroyed |-> FALSE, doc |-> "", base |-> <<>>,
   language |-> <<>>, fontSize |-> NULL, lineHeight |-> NULL,
   reconfigures |-> 0, staleDispatches |-> 0]

\* the instance as one value, for the handlers to transform
Component ==
  [variant |-> variant, isPhone |-> isPhone, ext |-> ext,
   editorContainer |-> editorContainer, listeners |-> listeners, style |-> style,
   st |-> st, editor |-> editor, view |-> view, frames |-> frames,
   nextHandle |-> nextHandle,
   emitted |-> <<>>]        \* a handler starts with nothing emitted

TheElement == <<"div.editor-container">>
TheView == <<"EditorView">>

-----------------------------------------------------------------------------
(* Browser and editor-library primitives                                   *)

\* requestAnimationFrame(cb): queue cb, return its handle
requestAnimationFrame(c, fn, e) ==
  [c EXCEPT !.frames = Append(@, [handle |-> c.nextHandle, fn |-> fn, e |-> e]),
            !.nextHandle = @ + 1]

\* cancelAnimationFrame(handle): drop the callback with that handle, if pending
cancelAnimationFrame(c, handle) ==
  [c EXCEPT !.frames = SelectSeq(@, LAMBDA f : f.handle # handle)]

\* props.text, and the documents an edit can leave
propsText == "a"

Docs == {"a", "ab"}

\* the extensions every configuration starts with (basicSetup, tokyoNight,
\* EditorView.lineWrapping and the one EditorView.updateListener); Editor.vue
\* lists the same four inline in initEditor
baseExtensions == <<"basicSetup", "tokyoNight", "lineWrapping", "updateListener">>

\* the callback given to EditorView.updateListener.of
updateListener(c, changesEmpty) ==
  IF ~changesEmpty
  THEN [c EXCEPT !.emitted = Append(@, <<"update:text", c.view.doc>>)]
  ELSE c

\* the view tells an update to every update listener of its configuration
RECURSIVE notifyListeners(_, _, _)
notifyListeners(c, exts, changesEmpty) ==
  IF exts = <<>> THEN c
  ELSE notifyListeners(
         IF Head(exts) = "updateListener" THEN updateListener(c, changesEmpty) ELSE c,
         Tail(exts), changesEmpty)

\* reconfiguration that adds the extensions to the ones installed
\* (StateEffect.appendConfig) instead of replacing them
dispatchAppendConfig(c, language, fontSize, lineHeight) ==
  IF c.view.destroyed
  THEN [c EXCEPT !.view.staleDispatches = @ + 1]
  ELSE LET c1 == [c EXCEPT !.view.base = @ \o baseExtensions,
                           !.view.language = language, !.view.fontSize = fontSize,
                           !.view.lineHeight = lineHeight, !.view.reconfigures = @ + 1]
       IN  notifyListeners(c1, c1.view.base, TRUE)

\* editor.dispatch({effects: StateEffect.reconfigure.of([...])}): replaces the
\* configuration of a live view, an update whose change set is empty; a
\* dispatch to a destroyed view is counted
dispatchReconfigure(c, language, fontSize, lineHeight) ==
  IF c.view.destroyed
  THEN [c EXCEPT !.view.staleDispatches = @ + 1]
  ELSE LET c1 == [c EXCEPT !.view.base = baseExtensions,
                           !.view.language = language, !.view.fontSize = fontSize,
                           !.view.lineHeight = lineHeight, !.view.reconfigures = @ + 1]
       IN  notifyListeners(c1, c1.view.base, TRUE)

\* a transaction of the editor (typing, selection): the document becomes doc,
\* then the update listeners run
dispatchTransaction(c, changesEmpty, doc) ==
  LET c1 == IF changesEmpty THEN c ELSE [c EXCEPT !.view.doc = doc]
  IN  notifyListeners(c1, c1.view.base, changesEmpty)

\* editor.destroy()
destroy(c) == [c EXCEPT !.view.destroyed = TRUE]

\* clamp with the upper bound forgotten
clampNoUpper(x, lo, hi) == MathMax(x, lo)

clamp(x, lo, hi) == MathMin(MathMax(x, lo), hi)

-----------------------------------------------------------------------------
(* Editor construction and reconfiguration                                 *)

\* the DOM of the template is rendered before onMounted runs, so
\* document.getElementById(DOM_ID) finds the parent element
initEditor(c) ==
  [c EXCEPT !.editor = TheView,
            !.view = [InitView EXCEPT
                        !.created = TRUE,
                        !.doc = propsText,
                        !.base = baseExtensions,
                        !.language = getLanguageExtension(c.variant, c.ext),
                        !.fontSize = IF c.variant = "A" THEN baseFontSize0(c.isPhone)
                                     ELSE c.st.currentFontSize,
                        !.lineHeight = IF c.variant = "A" THEN baseLineHeight0(c.isPhone)
                                       ELSE c.st.currentLineHeight]]

adjustContainerSize(c) ==
  IF c.editorContainer # NULL
  THEN [c EXCEPT !.style.minWidth = Mul(c.st.currentFontSize, Num(60)),
                 !.style.minHeight = Mul(c.st.currentFontSize, Num(30))]
  ELSE c

B_updateEditor(c) ==
  IF c.editor = NULL THEN c
  ELSE dispatchReconfigure(c, getLanguageExtension(c.variant, c.ext),
                           c.st.currentFontSize, c.st.currentLineHeight)

C_updateEditor(c) ==
  IF c.editor = NULL THEN c
  ELSE adjustContainerSize(
         dispatchReconfigure(c, getLanguageExtension(c.variant, c.ext),
                             MathMax(Num(8), c.st.currentFontSize),
                             c.st.currentLineHeight))

-----------------------------------------------------------------------------
(* Editor.vue                                                              *)

A_handleTouchStart(c, touches) ==
  IF Len(touches) = 2
  THEN LET center == getTouchCenter(touches[1], touches[2])
       IN  [c EXCEPT !.st.initialPinchDistance = getDistance(touches[1], touches[2]),
                     !.st.initialPinchCenterX = center.x,
                     !.st.initialPinchCenterY = center.y,
                     !.st.initialTranslateX = c.st.currentTranslateX,
                     !.st.initialTranslateY = c.st.currentTranslateY,
                     !.st.initialScale = c.st.currentScale]
  ELSE c

A_handleTouchMove(c, touches) ==
  IF Len(touches) = 2 /\ c.editorContainer # NULL /\ c.st.initialPinchDistance # NULL
  THEN LET currentDistance == getDistance(touches[1], touches[2])
           scaleFactor == Div(currentDistance, c.st.initialPinchDistance)
           newScale == clamp(Mul(c.st.initialScale, scaleFactor),
                             MIN_SCALE("A"), MAX_SCALE("A"))
           currentCenter == getTouchCenter(touches[1], touches[2])
           newTranslateX ==
             Sub(currentCenter.x,
                 Mul(Sub(c.st.initialPinchCenterX, c.st.initialTranslateX),
                     Div(newScale, c.st.initialScale)))
           newTranslateY ==
             Sub(currentCenter.y,
                 Mul(Sub(c.st.initialPinchCenterY, c.st.initialTranslateY),
                     Div(newScale, c.st.initialScale)))
       IN  [c EXCEPT !.st.currentScale = newScale,
                     !.st.currentTranslateX = newTranslateX,
                     !.st.currentTranslateY = newTranslateY,
                     !.style.transform = <<newTranslateX, newTranslateY, newScale>>,
                     !.st.initialPinchDistance = currentDistance]
  ELSE c

A_handleTouchEnd(c) == [c EXCEPT !.st.initialPinchDistance = NULL]

A_onMounted(c) ==
  LET c1 == initEditor(c)
  IN  IF c1.editorContainer # NULL
      THEN [c1 EXCEPT !.listeners = @ \cup {"touchstart", "touchmove", "touchend"}]
      ELSE c1

A_onBeforeUnmount(c) ==
  LET c1 == IF c.editorContainer # NULL
            THEN [c EXCEPT !.listeners = @ \ {"touchstart", "touchmove", "touchend"}]
            ELSE c
  IN  IF c1.editor # NULL THEN destroy(c1) ELSE c1

-----------------------------------------------------------------------------
(* part_000, first component: frame-scheduled                              *)

\* the callback handleTouchMove hands to requestAnimationFrame; e is the
\* touch list of the event that scheduled it.  The transform origin it also
\* sets depends on the element's layout rectangle and is left out.
\* the frame callback scaling from the scale in effect instead of the scale
\* committed at touchstart
B_frameCallbackFromScale(c, e) ==
  IF c.editorContainer = NULL THEN c
  ELSE LET currentDistance == getDistance(e[1], e[2])
       IN  IF Greater(c.st.startDistance, Num(0))
           THEN LET scaleFactor == Div(currentDistance, c.st.startDistance)
                    newScale == Mul(c.st.scale, scaleFactor)
                    scale == clamp(newScale, MIN_SCALE("B"), MAX_SCALE("B"))
                IN  B_updateEditor(
                      [c EXCEPT !.st.scale = scale,
                                !.style.transform = <<scale>>,
                                !.st.currentFontSize =
                                   MathRound(Mul(baseFontSize0(c.isPhone), scale)),
                                !.st.currentLineHeight =
                                   MathRound(Mul(baseLineHeight0(c.isPhone), scale))])
           ELSE c

B_frameCallback(c, e) ==
  IF c.editorContainer = NULL THEN c
  ELSE LET currentDistance == getDistance(e[1], e[2])
       IN  IF Greater(c.st.startDistance, Num(0))
           THEN LET scaleFactor == Div(currentDistance, c.st.startDistance)
                    newScale == Mul(c.st.startScale, scaleFactor)
                    scale == clamp(newScale, MIN_SCALE("B"), MAX_SCALE("B"))
                IN  B_updateEditor(
                      [c EXCEPT !.st.scale = scale,
                                !.style.transform = <<scale>>,
                                !.st.currentFontSize =
                                   MathRound(Mul(baseFontSize0(c.isPhone), scale)),
                                !.st.currentLineHeight =
                                   MathRound(Mul(baseLineHeight0(c.isPhone), scale))])
           ELSE c

B_handleTouchMove(c, touches) ==
  IF Len(touches) = 2 /\ c.editorContainer # NULL
  THEN LET c1 == cancelAnimationFrame(c, c.st.animationFrameId)
           c2 == requestAnimationFrame(c1, "frameCallback", touches)
       IN  [c2 EXCEPT !.st.animationFrameId = c1.nextHandle]
  ELSE c

B_handleTouchStart(c, touches) ==
  IF Len(touches) = 2 /\ c.editorContainer # NULL
  THEN LET center == getTouchCenter(touches[1], touches[2])
       IN  [c EXCEPT !.st.startCenterX = center.x,
                     !.st.startCenterY = center.y,
                     !.st.startDistance = getDistance(touches[1], touches[2]),
                     !.st.startScale = c.st.scale]
  ELSE c

B_handleTouchEnd(c) ==
  cancelAnimationFrame([c EXCEPT !.st.startDistance = Num(0)], c.st.animationFrameId)

AllTouchEvents == {"touchstart", "touchmove", "touchend", "touchcancel"}

B_onMounted(c) ==
  LET c1 == initEditor(c)
  IN  IF c1.editorContainer # NULL
      THEN [c1 EXCEPT !.listeners = @ \cup AllTouchEvents]
      ELSE c1

B_onBeforeUnmount(c) ==
  LET c1 == IF c.editorContainer # NULL
            THEN [c EXCEPT !.listeners = @ \ AllTouchEvents]
            ELSE c
      c2 == IF c1.editor # NULL THEN [destroy(c1) EXCEPT !.editor = NULL] ELSE c1
  IN  cancelAnimationFrame(c2, c2.st.animationFrameId)

-----------------------------------------------------------------------------
(* part_000, second component: threshold                                   *)

\* the 0.1 of Math.abs(newScale - currentScale) > 0.1
Threshold == Frac(1, 10)

C_handleTouchMove(c, touches) ==
  IF Len(touches) = 2 /\ c.editorContainer # NULL
  THEN LET currentDistance == getDistance(touches[1], touches[2])
           c1 ==
             IF Truthy(c.st.initialPinchDistance) /\ Truthy(currentDistance)
             THEN LET scale == Div(currentDistance, c.st.initialPinchDistance)
                      newScale == clamp(Mul(c.st.currentScale, scale),
                                        MIN_SCALE("C"), MAX_SCALE("C"))
                  IN  IF Greater(MathAbs(Sub(newScale, c.st.currentScale)), Threshold)
                      THEN requestAnimationFrame(
                             [c EXCEPT !.st.currentFontSize =
                                          MathMax(Num(8),
                                                  MathRound(Mul(c.st.baseFontSize, newScale))),
                                       !.st.currentLineHeight =
                                          MathRound(Mul(c.st.baseLineHeight, newScale)),
                                       !.st.currentScale = newScale],
                             "updateEditor", <<>>)
                      ELSE c
             ELSE c
       IN  [c1 EXCEPT !.st.initialPinchDistance = currentDistance]
  ELSE c

C_handleTouchStart(c, touches) ==
  IF Len(touches) = 2
  THEN [c EXCEPT !.st.initialPinchDistance = getDistance(touches[1], touches[2]),
                 !.st.baseFontSize = c.st.currentFontSize,
                 !.st.baseLineHeight = c.st.currentLineHeight]
  ELSE c

\* touchend that commits the base sizes by scaling them by the current scale
C_handleTouchEndRescale(c) ==
  [c EXCEPT !.st.initialPinchDistance = NULL,
            !.st.baseFontSize = MathRound(Mul(c.st.baseFontSize, c.st.currentScale)),
            !.st.baseLineHeight = MathRound(Mul(c.st.baseLineHeight, c.st.currentScale))]

C_handleTouchEnd(c) ==
  [c EXCEPT !.st.initialPinchDistance = NULL,
            !.st.baseFontSize = c.st.currentFontSize,
            !.st.baseLineHeight = c.st.currentLineHeight]

C_onMounted(c) ==
  LET c1 == initEditor(c)
  IN  IF c1.editorContainer # NULL
      THEN [c1 EXCEPT !.listeners = @ \cup AllTouchEvents]
      ELSE c1

C_onBeforeUnmount(c) ==
  LET c1 == IF c.editorContainer # NULL
            THEN [c EXCEPT !.listeners = @ \ AllTouchEvents]
            ELSE c
  IN  IF c1.editor # NULL THEN destroy(c1) ELSE c1

-----------------------------------------------------------------------------
(* Dispatch on the variant                                                 *)

handleTouchStart(c, touches) ==
  CASE c.variant = "A" -> A_handleTouchStart(c, touches)
    [] c.variant = "B" -> B_handleTouchStart(c, touches)
    [] c.variant = "C" -> C_handleTouchStart(c, touches)

handleTouchMove(c, touches) ==
  CASE c.variant = "A" -> A_handleTouchMove(c, touches)
    [] c.variant = "B" -> B_handleTouchMove(c, touches)
    [] c.variant = "C" -> C_handleTouchMove(c, touches)

handleTouchEnd(c) ==
  CASE c.variant = "A" -> A_handleTouchEnd(c)
    [] c.variant = "B" -> B_handleTouchEnd(c)
    [] c.variant = "C" -> C_handleTouchEnd(c)

onMounted(c) ==
  CASE c.variant = "A" -> A_onMounted(c)
    [] c.variant = "B" -> B_onMounted(c)
    [] c.variant = "C" -> C_onMounted(c)

onBeforeUnmount(c) ==
  CASE c.variant = "A" -> A_onBeforeUnmount(c)
    [] c.variant = "B" -> B_onBeforeUnmount(c)
    [] c.variant = "C" -> C_onBeforeUnmount(c)

runCallback(c, f) ==
  IF f.fn = "frameCallback" THEN B_frameCallback(c, f.e) ELSE C_updateEditor(c)

\* one animation frame: the browser runs, in order, every callback that was
\* pending when the frame began
RECURSIVE runCallbacks(_, _)
runCallbacks(c, fs) ==
  IF fs = <<>> THEN c ELSE runCallbacks(runCallback(c, Head(fs)), Tail(fs))

animationFrame(c) == runCallbacks([c EXCEPT !.frames = <<>>], c.frames)

-----------------------------------------------------------------------------
(* Observations                                                            *)

Scale(c) == IF c.variant = "B" THEN c.st.scale ELSE c.st.currentScale

\* the stored baseline finger distance
Baseline(c) == IF c.variant = "B" THEN c.st.startDistance ELSE c.st.initialPinchDistance

\* scale, translation, font size and line height in effect
Effect(c) ==
  CASE c.variant = "A" ->
         <<c.st.currentScale, c.st.currentTranslateX, c.st.currentTranslateY,
           c.style.transform>>
    [] c.variant = "B" ->
         <<c.st.scale, c.st.currentFontSize, c.st.currentLineHeight, c.style.transform>>
    [] c.variant = "C" ->
         <<c.st.currentScale, c.st.currentFontSize, c.st.currentLineHeight>>

\* the scale a gesture multiplies the finger distance ratio with
BaselineScale(c) ==
  CASE c.variant = "A" -> c.st.initialScale
    [] c.variant = "B" -> c.st.startScale
    [] c.variant = "C" -> c.st.currentScale

InBounds(x, lo, hi) == ~Less(x, lo) /\ ~Greater(x, hi) /\ IsFinite(x)

InitHist ==
  [nEvents |-> 0,            \* touch events handled
   last |-> "setup",         \* the handler that ran last
   lastTouches |-> <<>>,     \* e.touches of the last touchstart or touchmove
   zeroSeen |-> FALSE,       \* a two-finger event had finger distance 0
   tracking |-> FALSE,       \* a two-finger touchstart was handled, no touchend since
   dropped |-> FALSE,        \* while tracking, an event had other than 2 touches
   pure |-> FALSE,           \* tracking, and every touchmove since the touchstart
                             \* had two fingers a non-zero distance apart
   startTouches |-> <<>>,    \* e.touches of the gesture's touchstart
   startEffect |-> <<>>,     \* Effect when the gesture's touchstart was handled
   endRun |-> 0,             \* touchends handled since the last touchstart/touchmove
   endSnap |-> <<>>,         \* gesture state after the first of them
   frameReconfigures |-> 0,  \* reconfigurations dispatched by the last animation frame
   changesEmpty |-> TRUE,    \* update.changes.empty of the last editor transaction
   firstMoveSame |-> FALSE]  \* the last touchmove was the first of its gesture, at the touchstart's distance

IsZeroPair(touches) == Len(touches) = 2 /\ getDistance(touches[1], touches[2]) = Num(0)

\* the gesture state a touchend is to leave alone
GestureState(c) == <<c.st, c.style.transform>>

Dispatches(c) == c.view.reconfigures + c.view.staleDispatches

-----------------------------------------------------------------------------
(* Actions                                                                 *)

Apply(c) ==
  /\ editorContainer' = c.editorContainer
  /\ listeners' = c.listeners
  /\ style' = c.style
  /\ st' = c.st
  /\ editor' = c.editor
  /\ view' = c.view
  /\ frames' = c.frames
  /\ nextHandle' = c.nextHandle
  /\ emitted' = c.emitted
  /\ UNCHANGED <<variant, isPhone, ext>>

\* Vue renders the template, sets the template ref and runs the onMounted hook
OnMounted ==
  /\ phase = "setup"
  /\ phase' = "mounted"
  /\ Apply(onMounted([Component EXCEPT !.editorContainer = TheElement]))
  /\ hist' = [hist EXCEPT !.last = "onMounted"]

TouchStart ==
  /\ "touchstart" \in listeners
  /\ hist.nEvents < MaxEvents
  /\ \E touches \in TouchLists :
       LET c == handleTouchStart(Component, touches)
       IN  /\ Apply(c)
           /\ hist' = [hist EXCEPT
                 !.nEvents = @ + 1,
                 !.last = "touchstart",
                 !.lastTouches = touches,
                 !.zeroSeen = @ \/ IsZeroPair(touches),
                 !.tracking = @ \/ Len(touches) = 2,
                 !.dropped = IF Len(touches) = 2 THEN FALSE ELSE @ \/ hist.tracking,
                 !.pure = IF Len(touches) = 2 THEN ~IsZeroPair(touches) ELSE @,
                 !.startTouches = IF Len(touches) = 2 THEN touches ELSE @,
                 !.startEffect = IF Len(touches) = 2 THEN Effect(Component) ELSE @,
                 !.firstMoveSame = FALSE,
                 !.endRun = 0,
                 !.endSnap = <<>>]
  /\ UNCHANGED phase

TouchMove ==
  /\ "touchmove" \in listeners
  /\ hist.nEvents < MaxEvents
  /\ \E touches \in TouchLists :
       LET c == handleTouchMove(Component, touches)
       IN  /\ Apply(c)
           /\ hist' = [hist EXCEPT
                 !.nEvents = @ + 1,
                 !.last = "touchmove",
                 !.lastTouches = touches,
                 !.zeroSeen = @ \/ IsZeroPair(touches),
                 !.dropped = @ \/ (hist.tracking /\ Len(touches) # 2),
                 !.pure = @ /\ Len(touches) = 2 /\ ~IsZeroPair(touches),
                 !.firstMoveSame = /\ hist.last = "touchstart"
                                   /\ Len(hist.lastTouches) = 2
                                   /\ Len(touches) = 2
                                   /\ getDistance(touches[1], touches[2]) =
                                        getDistance(hist.lastTouches[1], hist.lastTouches[2]),
                 !.endRun = 0,
                 !.endSnap = <<>>]
  /\ UNCHANGED phase

\* touchend, and touchcancel where a handler is registered for it
TouchEnd ==
  /\ hist.nEvents < MaxEvents
  /\ \E type \in {"touchend", "touchcancel"} \cap listeners :
       LET c == handleTouchEnd(Component)
       IN  /\ Apply(c)
           /\ hist' = [hist EXCEPT
                 !.nEvents = @ + 1,
                 !.last = "touchend",
                 !.tracking = FALSE,
                 !.dropped = FALSE,
                 !.pure = FALSE,
                 !.firstMoveSame = FALSE,
                 !.endRun = @ + 1,
                 !.endSnap = IF hist.endRun = 0 THEN GestureState(c) ELSE @]
  /\ UNCHANGED phase

AnimationFrame ==
  /\ frames # <<>>
  /\ LET c == animationFrame(Component)
     IN  /\ Apply(c)
         /\ hist' = [hist EXCEPT
               !.last = "frame",
               !.frameReconfigures = Dispatches(c) - Dispatches(Component)]
  /\ UNCHANGED phase

\* Vue runs the onBeforeUnmount hook, unmounts and clears the template ref
OnBeforeUnmount ==
  /\ phase = "mounted"
  /\ phase' = "unmounted"
  /\ Apply([onBeforeUnmount(Component) EXCEPT !.editorContainer = NULL])
  /\ hist' = [hist EXCEPT !.last = "onBeforeUnmount"]

\* the user edits the document or moves the selection in the live editor: one
\* transaction, with an empty or a non-empty change set
EditorUpdate ==
  /\ view.created /\ ~view.destroyed
  /\ \E changesEmpty \in BOOLEAN, doc \in Docs :
       /\ Apply(dispatchTransaction(Component, changesEmpty, doc))
       /\ hist' = [hist EXCEPT !.last = "update", !.changesEmpty = changesEmpty]
  /\ UNCHANGED phase

\* the extension the gesture runs are checked with
GestureExts == {"ts"}

Init ==
  /\ variant \in Variants
  /\ isPhone \in BOOLEAN
  /\ ext \in GestureExts
  /\ phase = "setup"
  /\ editorContainer = NULL
  /\ listeners = {}
  /\ style = InitStyle
  /\ st = InitSt(variant, isPhone)
  /\ editor = NULL
  /\ view = InitView
  /\ frames = <<>>
  /\ nextHandle = 1
  /\ emitted = <<>>
  /\ hist = InitHist

Next ==
  \/ OnMounted
  \/ TouchStart
  \/ TouchMove
  \/ TouchEnd
  \/ AnimationFrame
  \/ OnBeforeUnmount

Spec == Init /\ [][Next]_vars

\* the mode resolver is checked over every extension; no gesture is run
InitMode ==
  /\ variant \in Variants
  /\ isPhone \in BOOLEAN
  /\ ext \in Exts
  /\ phase = "setup"
  /\ editorContainer = NULL
  /\ listeners = {}
  /\ style = InitStyle
  /\ st = InitSt(variant, isPhone)
  /\ editor = NULL
  /\ view = InitView
  /\ frames = <<>>
  /\ nextHandle = 1
  /\ emitted = <<>>
  /\ hist = InitHist

NextMode ==
  \/ OnMounted
  \/ OnBeforeUnmount

SpecMode == InitMode /\ [][NextMode]_vars

\* Editing runs: gestures with one finger resting at the origin, interleaved
\* with editor transactions
EditTouches == {touches \in TouchPairs : touches[1] = Touch(0, 0)}

EditTouchStart == TouchStart /\ hist'.lastTouches \in EditTouches

EditTouchMove == TouchMove /\ hist'.lastTouches \in EditTouches

NextEdit ==
  \/ OnMounted
  \/ EditTouchStart
  \/ EditTouchMove
  \/ TouchEnd
  \/ AnimationFrame
  \/ EditorUpdate
  \/ OnBeforeUnmount

SpecEdit == Init /\ [][NextEdit]_vars

-----------------------------------------------------------------------------
(* Steps, as the properties name them                                      *)

IsTouchMoveStep == hist'.nEvents = hist.nEvents + 1 /\ hist'.last = "touchmove"

IsFrameStep == hist'.last = "frame" /\ frames # <<>> /\ frames' # frames

IsTouchStartStep == hist'.nEvents = hist.nEvents + 1 /\ hist'.last = "touchstart"

IsTouchEndStep == hist'.nEvents = hist.nEvents + 1 /\ hist'.last = "touchend"

\* the scale held by a snapshot of the gesture state
SnapScale(snap) == IF variant = "B" THEN snap[1].scale ELSE snap[1].currentScale

BaselineCleared(c) == Baseline(c) = IF c.variant = "B" THEN Num(0) ELSE NULL

-----------------------------------------------------------------------------
(* Claims                                                                  *)

\* C1: in each variant, as long as no two-finger event had a zero finger
\* distance, the current scale lies within [MIN_SCALE, MAX_SCALE] of the
\* variant, after any touch events and animation frames.
C1_ScaleWithinBounds ==
  ~hist.zeroSeen =>
     InBounds(Scale(Component), MIN_SCALE(variant), MAX_SCALE(variant))

\* C1 witness: Editor.vue has clamped a move to MAX_SCALE with no zero distance seen
C1_Witness ==
  /\ variant = "A"
  /\ ~hist.zeroSeen
  /\ hist.last = "touchmove"
  /\ Scale(Component) = MAX_SCALE("A")

\* C2 (as claimed): a two-finger touchmove (or the frame callback it
\* scheduled) that finds a zero baseline distance leaves scale, translation
\* and font size as they were.
C2_ZeroBaselineMoveIsNoOp ==
  [][ ( /\ Baseline(Component) = Num(0)
        /\ \/ IsTouchMoveStep /\ Len(hist'.lastTouches) = 2
           \/ IsFrameStep )
      => Effect(Component)' = Effect(Component) ]_vars

\* C3 (as claimed): while no gesture is in progress, a touchmove (or the frame
\* callback it scheduled) changes neither scale, translation, font size nor
\* the stored baseline distance.
C3_IdleMoveIsNoOp ==
  [][ (~hist.tracking /\ (IsTouchMoveStep \/ IsFrameStep))
      => /\ Effect(Component)' = Effect(Component)
         /\ Baseline(Component)' = Baseline(Component) ]_vars

\* C4 (as claimed): once a touch event with other than two touch points has
\* arrived during a gesture, the baseline distance is cleared, and no
\* touchmove changes the scale until a new two-finger touchstart.
C4_NonTwoTouchDropsToIdle ==
  /\ [](hist.dropped => BaselineCleared(Component))
  /\ [][ (hist.dropped /\ (IsTouchMoveStep \/ IsFrameStep))
         => Scale(Component)' = Scale(Component) ]_vars

\* C5 (as claimed): in Editor.vue and the threshold variant, a two-finger
\* touchmove that brings the fingers back to the distance of the gesture's
\* touchstart leaves the scale at the value it had at that touchstart.
C5_RoundTrip ==
  ( /\ variant \in {"A", "C"}
    /\ hist.pure
    /\ hist.last = "touchmove"
    /\ getDistance(hist.lastTouches[1], hist.lastTouches[2])
         = getDistance(hist.startTouches[1], hist.startTouches[2]) )
  => Scale(Component) = hist.startEffect[1]

\* C6 (as claimed): in the reconfiguring variants, after onBeforeUnmount no
\* touch listener is left, the editor is destroyed, and no deferred callback
\* dispatches a reconfiguration to the destroyed editor.
C6_UnmountCancels ==
  (variant \in {"B", "C"} /\ phase = "unmounted")
  => /\ listeners = {}
     /\ view.destroyed
     /\ view.staleDispatches = 0

\* C7 (as claimed): in the reconfiguring variants at most one deferred frame
\* callback is pending, an animation frame reconfigures the editor at most
\* once, and a touchmove handler never reconfigures it synchronously.
C7_OneReconfigurePerFrame ==
  /\ [](variant \in {"B", "C"} => Len(frames) <= 1 /\ hist.frameReconfigures <= 1)
  /\ [][ IsTouchMoveStep => Dispatches(Component)' = Dispatches(Component) ]_vars

\* C8: after a touchend (or touchcancel), every further touchend leaves the
\* gesture state (the script's gesture variables, the pending frame handle
\* among them, and the transform) as the first one left it.
C8_TouchEndIdempotent ==
  hist.endRun >= 1 => GestureState(Component) = hist.endSnap

\* C8 witness: a second touchend after a gesture that changed the scale
C8_Witness ==
  /\ hist.endRun >= 2
  /\ Scale(Component) # Num(1)

\* C9 (as claimed): in Editor.vue, after a two-finger touchmove of a gesture,
\* the translation is currentMidpoint - (baselineMidpoint - baselineTranslate)
\* * (newScale / baselineScale) for the values captured at the touchstart, the
\* content point under the midpoint at touchstart is under the current
\* midpoint, and a move with the touch points of the touchstart leaves scale
\* and translation at their touchstart values.
C9_PanAnchoring ==
  (variant = "A" /\ ~hist.zeroSeen /\ hist.pure /\ hist.last = "touchmove")
  => LET mid == getTouchCenter(hist.lastTouches[1], hist.lastTouches[2])
         mid0 == getTouchCenter(hist.startTouches[1], hist.startTouches[2])
         s0 == hist.startEffect[1]
         tx0 == hist.startEffect[2]
         ty0 == hist.startEffect[3]
         px == Div(Sub(mid0.x, tx0), s0)
         py == Div(Sub(mid0.y, ty0), s0)
     IN  /\ st.currentTranslateX
              = Sub(mid.x, Mul(Sub(mid0.x, tx0), Div(st.currentScale, s0)))
         /\ st.currentTranslateY
              = Sub(mid.y, Mul(Sub(mid0.y, ty0), Div(st.currentScale, s0)))
         /\ Add(st.currentTranslateX, Mul(st.currentScale, px)) = mid.x
         /\ Add(st.currentTranslateY, Mul(st.currentScale, py)) = mid.y
         /\ hist.lastTouches = hist.startTouches
              => /\ st.currentScale = s0
                 /\ st.currentTranslateX = tx0
                 /\ st.currentTranslateY = ty0

\* C10: the editor is built with the bundle of whichever entry of
\* languagesMap names the extension, with the default bundle when none does;
\* no extension is named by two entries; and the table of Editor.vue and the
\* table of part_000 resolve every extension to the same language.
C10_ModeResolver ==
  LET map == languagesMap(variant, ext)
  IN  /\ view.created =>
            /\ \A i \in DOMAIN map :
                 includes(map[i].name, ext) => view.language = map[i].plugin
            /\ (\A i \in DOMAIN map : ~includes(map[i].name, ext))
                 => view.language = defaultBundle
      /\ \A i, j \in DOMAIN map :
           i # j => ~\E k \in DOMAIN map[i].name : includes(map[j].name, map[i].name[k])
      /\ getLanguageExtension("A", ext)[1] = getLanguageExtension("B", ext)[1]
      /\ getLanguageExtension("B", ext) = getLanguageExtension("C", ext)

\* C10 witness: the second component of part_000 mounted for a .json5 file
C10_Witness ==
  /\ variant = "C"
  /\ ext = "json5"
  /\ view.created
  /\ view.language = <<"json", "lintGutter", "linter(jsonParseLinter)">>

\* C11: an editor update with a non-empty change set emits "update:text"
\* exactly once, carrying the full current document text; an update with an
\* empty change set emits nothing; every other step, an animation frame that
\* reconfigures the editor included, emits nothing; and whatever the number of
\* reconfigurations, the configuration of a created view holds exactly one
\* change listener.
C11_OneEmitPerEdit ==
  /\ hist.last = "update" =>
        emitted = IF hist.changesEmpty THEN <<>> ELSE << <<"update:text", view.doc>> >>
  /\ hist.last # "update" => emitted = <<>>
  /\ view.created =>
        Cardinality({i \in DOMAIN view.base : view.base[i] = "updateListener"}) = 1

\* an edit after two zoom reconfigurations emitted once
C11_Witness ==
  /\ variant \in {"B", "C"}
  /\ view.reconfigures >= 2
  /\ hist.last = "update"
  /\ ~hist.changesEmpty
  /\ emitted = << <<"update:text", view.doc>> >>

\* C12 (as claimed): in every variant, a touchstart and a touchend leave scale,
\* translation and font size in effect as they were; a two-finger touchstart
\* that follows a touchend (animation frames apart) sets the baseline scale to
\* the scale the ended gesture left; and the first touchmove of a gesture, when
\* it has the finger distance of its touchstart, leaves the scale as it was
\* (in the frame-scheduled variant: so does the frame callback it scheduled).
C12_CommitAcrossGestures ==
  [][ /\ (IsTouchStartStep \/ IsTouchEndStep)
          => Effect(Component)' = Effect(Component)
      /\ (IsTouchStartStep /\ Len(hist'.lastTouches) = 2 /\ hist.endSnap # <<>>)
          => BaselineScale(Component)' = SnapScale(hist.endSnap)
      /\ (IsTouchMoveStep /\ hist'.firstMoveSame)
          => Scale(Component)' = Scale(Component)
      /\ (IsFrameStep /\ hist.last = "touchmove" /\ hist.firstMoveSame)
          => Scale(Component)' = Scale(Component) ]_vars

\* C12 without the zero finger distance: the same, for gestures whose
\* touchstart has a finger distance above zero
C12_CommitAcrossGesturesNonZero ==
  [][ /\ (IsTouchStartStep \/ IsTouchEndStep)
          => Effect(Component)' = Effect(Component)
      /\ (IsTouchStartStep /\ Len(hist'.lastTouches) = 2 /\ hist.endSnap # <<>>)
          => BaselineScale(Component)' = SnapScale(hist.endSnap)
      /\ (IsTouchMoveStep /\ hist'.firstMoveSame /\ ~IsZeroPair(hist'.lastTouches))
          => Scale(Component)' = Scale(Component)
      /\ (IsFrameStep /\ hist.last = "touchmove" /\ hist.firstMoveSame)
          => Scale(Component)' = Scale(Component) ]_vars

\* C13: in the frame-scheduled variant, within a gesture started by a
\* two-finger touchstart at finger distance d0 > 0 when the scale was s, the
\* animation frame that follows a two-finger touchmove at finger distance d
\* sets the scale to s * d / d0 clamped to [0.4, 1.25], whatever the earlier
\* moves of the gesture were, and sets font size and line height to the device
\* base sizes times that scale, rounded.
C13_FrameScaleFromStart ==
  [][ ( /\ variant = "B"
        /\ IsFrameStep
        /\ hist.tracking
        /\ hist.last = "touchmove"
        /\ Len(hist.lastTouches) = 2
        /\ Greater(getDistance(hist.startTouches[1], hist.startTouches[2]), Num(0)) )
      => LET s == hist.startEffect[1]
             d0 == getDistance(hist.startTouches[1], hist.startTouches[2])
             d == getDistance(hist.lastTouches[1], hist.lastTouches[2])
             expected == MathMin(MathMax(Div(Mul(s, d), d0), Frac(2, 5)), Frac(5, 4))
         IN  /\ st'.scale = expected
             /\ st'.currentFontSize = MathRound(Mul(baseFontSize0(isPhone), expected))
             /\ st'.currentLineHeight = MathRound(Mul(baseLineHeight0(isPhone), expected)) ]_vars

\* a gesture from distance 4 at scale 1 whose frame ran after a move at
\* distance 3 and an earlier scheduled move: scale 3/4, font size round(15 * 3/4)
C13_Witness ==
  /\ variant = "B"
  /\ ~isPhone
  /\ hist.tracking
  /\ hist.last = "frame"
  /\ hist.frameReconfigures = 1
  /\ nextHandle = 3
  /\ hist.startEffect[1] = Num(1)
  /\ getDistance(hist.startTouches[1], hist.startTouches[2]) = Num(4)
  /\ getDistance(hist.lastTouches[1], hist.lastTouches[2]) = Num(3)
  /\ st.scale = Frac(3, 4)
  /\ st.currentFontSize = Num(11)
  /\ st.currentLineHeight = Num(18)

\* C14 (as claimed): in both variants of part_000, after any touch events and
\* animation frames, currentFontSize lies within [round(B * MIN_SCALE),
\* round(B * MAX_SCALE)], with a floor of 8 in the threshold variant, and
\* currentLineHeight within [round(L * MIN_SCALE), round(L * MAX_SCALE)], B and
\* L being the base font size and line height of the device.
C14_SizesWithinBounds ==
  variant \in {"B", "C"} =>
    LET B == baseFontSize0(isPhone)
        L == baseLineHeight0(isPhone)
        floor == IF variant = "C" THEN Num(8) ELSE Num(0)
    IN  /\ InBounds(st.currentFontSize,
                    MathMax(floor, MathRound(Mul(B, MIN_SCALE(variant)))),
                    MathRound(Mul(B, MAX_SCALE(variant))))
        /\ InBounds(st.currentLineHeight,
                    MathRound(Mul(L, MIN_SCALE(variant))),
                    MathRound(Mul(L, MAX_SCALE(variant))))

====
